---- MODULE Spec2Model ----
(***************************************************************************)
(* A model of achilles::math (src/math.hpp): the quaternion, the 4x4       *)
(* matrix, the rotation <-> quaternion and Euler <-> quaternion            *)
(* conversions.                                                            *)
(*                                                                         *)
(* NUMBERS.  An f32 is modelled by one of two kinds of value:              *)
(*   <<n, d>>  the exact rational n/d (d > 0, lowest terms).  +, -, *, /   *)
(*             on exact values are exact: this is real arithmetic, which   *)
(*             f32 follows exactly on small dyadic values and within       *)
(*             rounding on the others;                                     *)
(*   <<k>>     the rounded value k/Grid.  The results of std::sin,         *)
(*             std::cos, std::asin, std::atan2 and of an inverse square    *)
(*             root that is not rational are rounded to this grid, and     *)
(*             every operation with a rounded operand rounds its result    *)
(*             to the grid again, as f32 rounds after every operation.     *)
(*   <<s, 0, 0>>  a finite value of sign s whose magnitude is beyond the   *)
(*             range of the model (fisqrt(0) is about 1.9e19).  Its        *)
(*             product with 0 is 0, with another value it stays beyond     *)
(*             the range.                                                  *)
(* fisqrt is computed as the code computes it: the seed from the bit       *)
(* pattern of n, exactly, and the refinement step in fixed point.          *)
(***************************************************************************)
EXTENDS Integers, Sequences, FiniteSets, TLC

\* ------------------------------------------------------------------ f32
\* Number of grid steps per unit of a rounded value.
Grid == 2^12

Abs(i) == IF i < 0 THEN -i ELSE i

Sgn(i) == IF i < 0 THEN -1 ELSE IF i = 0 THEN 0 ELSE 1

RECURSIVE Gcd(_, _)
Gcd(a, b) == IF b = 0 THEN a ELSE Gcd(b, a % b)

\* The exact value n/d in lowest terms, d # 0.
\* A division by zero gives <<1, 0>>, <<-1, 0>> (the infinities) or <<0, 0>>
\* (not a number), as in f32.
Q(n, d) ==
    IF d = 0 THEN <<Sgn(n), 0>>
    ELSE LET g == Gcd(Abs(n), Abs(d))
             s == IF d < 0 THEN -1 ELSE 1
         IN  <<(s * n) \div g, (s * d) \div g>>

\* An integer literal.
I(n) == <<n, 1>>

\* The rounded value k/Grid.
Fx(k) == <<k>>

IsFx(a) == Len(a) = 1

\* A finite value of sign s beyond the range of the model.
Huge(s) == <<s, 0, 0>>

IsHuge(a) == Len(a) = 3

IsNaN(a) == a = <<0, 0>>

Num(a) == a[1]

Den(a) == IF IsFx(a) THEN Grid ELSE a[2]

\* n/d rounded to the nearest integer, halves away from zero (d > 0).
RoundDiv(n, d) == Sgn(n) * ((2 * Abs(n) + d) \div (2 * d))

\* The grid numerator of a value: k with k/Grid nearest to it.
ToFx(a) == IF IsFx(a) THEN a[1] ELSE RoundDiv(a[1] * Grid, a[2])

\* round(x * y / Grid) on grid numerators, the high and low parts of |x|
\* multiplied apart so that the product stays within the integers.
FxMulInt(x, y) ==
    LET ax == Abs(x)
        ay == Abs(y)
        hi == ax \div Grid
        lo == ax % Grid
    IN  Sgn(x) * Sgn(y) * (hi * ay + ((lo * ay + Grid \div 2) \div Grid))

\* round(x * Grid / y) on grid numerators, y # 0.
FxDivInt(x, y) == Sgn(y) * RoundDiv(x * Grid, Abs(y))

Zero == I(0)

One == I(1)

Two == I(2)

Half == Q(1, 2)

Neg(a) ==
    IF IsFx(a) THEN Fx(-a[1]) ELSE IF IsHuge(a) THEN Huge(-a[1]) ELSE <<-a[1], a[2]>>

\* Exact sums and products are reduced before they are multiplied out, so that
\* the intermediate values stay small.
Add(a, b) ==
    IF IsNaN(a) \/ IsNaN(b) THEN <<0, 0>>
    ELSE IF IsHuge(a) \/ IsHuge(b)
    THEN IF Den(a) = 0 /\ Den(b) = 0 /\ a[1] # b[1] THEN <<0, 0>>
         ELSE IF ~IsHuge(a) /\ Den(a) = 0 THEN a
         ELSE IF ~IsHuge(b) /\ Den(b) = 0 THEN b
         ELSE IF IsHuge(a) THEN a ELSE b
    ELSE IF IsFx(a) \/ IsFx(b)
    THEN IF Den(a) = 0 THEN a ELSE IF Den(b) = 0 THEN b ELSE Fx(ToFx(a) + ToFx(b))
    ELSE IF a[2] = 0 \/ b[2] = 0
    THEN Q(a[1] * b[2] + b[1] * a[2], 0)
    ELSE LET g == Gcd(a[2], b[2])
         IN  Q(a[1] * (b[2] \div g) + b[1] * (a[2] \div g), (a[2] \div g) * b[2])

Sub(a, b) == Add(a, Neg(b))

Mul(a, b) ==
    IF IsNaN(a) \/ IsNaN(b) THEN <<0, 0>>
    ELSE IF IsHuge(a) \/ IsHuge(b)
    THEN IF a[1] = 0 \/ b[1] = 0 THEN Zero
         ELSE IF IsHuge(a) /\ IsHuge(b) THEN <<Sgn(a[1]) * Sgn(b[1]), 0>>
         ELSE IF Den(a) = 0 /\ Den(b) = 0 THEN <<Sgn(a[1]) * Sgn(b[1]), 0>>
         ELSE Huge(Sgn(a[1]) * Sgn(b[1]))
    ELSE IF IsFx(a) \/ IsFx(b)
    THEN IF Den(a) = 0 \/ Den(b) = 0
         THEN <<Sgn(a[1]) * Sgn(b[1]), 0>>
         ELSE Fx(FxMulInt(ToFx(a), ToFx(b)))
    ELSE IF a[1] = 0 \/ b[1] = 0 \/ a[2] = 0 \/ b[2] = 0
    THEN Q(a[1] * b[1], a[2] * b[2])
    ELSE LET g == Gcd(Abs(a[1]), b[2])
             h == Gcd(Abs(b[1]), a[2])
         IN  <<(a[1] \div g) * (b[1] \div h), (a[2] \div h) * (b[2] \div g)>>

Div(a, b) ==
    IF IsNaN(a) \/ IsNaN(b) THEN <<0, 0>>
    ELSE IF IsHuge(a) \/ IsHuge(b)
    THEN IF IsHuge(b) THEN (IF Den(a) = 0 THEN <<0, 0>> ELSE Zero)
         ELSE IF Den(b) = 0 THEN Zero
         ELSE IF b[1] = 0 THEN <<Sgn(a[1]), 0>>
         ELSE Huge(Sgn(a[1]) * Sgn(b[1]))
    ELSE IF IsFx(a) \/ IsFx(b)
    THEN IF Den(a) = 0 THEN <<Sgn(a[1]) * (IF b[1] < 0 THEN -1 ELSE 1), 0>>
         ELSE IF Den(b) = 0 THEN Zero
         ELSE IF b[1] = 0 THEN <<Sgn(a[1]), 0>>
         ELSE Fx(FxDivInt(ToFx(a), ToFx(b)))
    ELSE Q(a[1] * b[2], a[2] * b[1])

\* The comparisons of f32 values: a < b, a <= b, a == b.
Lt(a, b) == a # <<0, 0>> /\ b # <<0, 0>> /\ Num(a) * Den(b) < Num(b) * Den(a)

Le(a, b) == a # <<0, 0>> /\ b # <<0, 0>> /\ Num(a) * Den(b) <= Num(b) * Den(a)

Eq(a, b) == a # <<0, 0>> /\ b # <<0, 0>> /\ Num(a) * Den(b) = Num(b) * Den(a)


\* ------------------------------------------------------ library functions
TAU == Q(710, 113)

DEG_TO_RAD == Div(TAU, I(360))

\* ------------------------------------------------------------ fisqrt
\* A u32 bit pattern is <<hi, lo>>, its upper and lower 16 bits.
Word == 2^16

\* The magic constant 0x5F1FFFF9 of fisqrt, upper and lower half.
MagicHi == 24351

MagicLo == 65529

\* A shift that left conv.i as it is.
shiftNone(b) == b

\* conv.i >> 1.
shiftRight1(b) == <<b[1] \div 2, (b[1] % 2) * (Word \div 2) + b[2] \div 2>>

\* a - b on u32: the difference modulo 2^32, and whether it wrapped around.
u32Sub(a, b) ==
    LET borrow == IF a[2] < b[2] THEN 1 ELSE 0
        hi     == a[1] - b[1] - borrow
    IN  [bits |-> <<hi % Word, (a[2] - b[2]) % Word>>, wrapped |-> hi < 0]

\* conv.i = 0x5F1FFFF9ul - (conv.i >> 1).
fisqrtSeed(b) == u32Sub(<<MagicHi, MagicLo>>, shiftRight1(b))

\* The fields of an f32 bit pattern.
signBit(b) == b[1] \div (Word \div 2)

exponentField(b) == (b[1] \div 2^7) % 2^8

mantissaField(b) == <<b[1] % 2^7, b[2]>>

\* The refinement step works on values scaled by Scale; the significand
\* 1.f of a normal f32 keeps its upper 14 fraction bits.
Scale == 2^14

significand(b) == Scale + (b[1] % 2^7) * 2^7 + b[2] \div 2^9

\* 0.703952253f and 2.38924456f, scaled.
CoefA == 11534

CoefB == 39145

\* x * 2^k, rounded towards zero; 0 below the last scaled digit.
shiftBy(x, k) == IF k >= 0 THEN x * 2^k ELSE IF k < -30 THEN 0 ELSE x \div 2^(-k)

\* The binary exponent of n * conv.f * conv.f relative to its scaled
\* significand, for the pattern b of n and the seed s.
productExponent(b, s) == exponentField(b) + 2 * exponentField(s) - 381

\* n * conv.f * conv.f, scaled, where the exponent is at most 0 (it is, unless
\* the seed wrapped around); 0 for n = 0.
seedProduct(b, s) ==
    IF exponentField(b) = 0 THEN 0
    ELSE LET y2 == (significand(s) * significand(s)) \div Scale
             t0 == (y2 * significand(b)) \div Scale
         IN  (IF signBit(b) = 1 THEN -1 ELSE 1) * shiftBy(t0, productExponent(b, s))

\* A step that left the seed as it is.
refineFactorNone(t) == Scale

\* 0.703952253f * (2.38924456f - n * conv.f * conv.f), scaled.
refineFactor(t) == RoundDiv(CoefA * (CoefB - t), Scale)

\* The f32 bit pattern of a value: sign, biased exponent and the 23 fraction
\* bits, by long division; values that are too small for a normal f32 give 0.
RECURSIVE normalForm(_, _, _)
normalForm(a, d, e) ==
    IF a >= 2 * d THEN normalForm(a, 2 * d, e + 1)
    ELSE IF a < d THEN normalForm(2 * a, d, e - 1)
    ELSE <<a, d, e>>

floatBits(x) ==
    IF IsNaN(x) THEN <<32704, 0>>
    ELSE IF IsHuge(x) THEN <<(IF x[1] < 0 THEN Word \div 2 ELSE 0) + 190 * 2^7, 0>>
    ELSE IF Den(x) = 0 THEN <<(IF x[1] < 0 THEN Word \div 2 ELSE 0) + 255 * 2^7, 0>>
    ELSE IF Num(x) = 0 THEN <<0, 0>>
    ELSE LET f  == normalForm(Abs(Num(x)), Den(x), 0)
             r0 == f[1] - f[2]
             q1 == (r0 * 2^7) \div f[2]
             r1 == (r0 * 2^7) % f[2]
             q2 == (r1 * 2^8) \div f[2]
             r2 == (r1 * 2^8) % f[2]
             q3 == (r2 * 2^8) \div f[2]
         IN  IF f[3] + 127 <= 0 THEN <<0, 0>>
             ELSE <<(IF Num(x) < 0 THEN Word \div 2 ELSE 0) + (f[3] + 127) * 2^7 + q1,
                    q2 * 2^8 + q3>>

\* The value of the scaled significand m with the exponent field e and the sign
\* sg: rounded to the grid, or beyond the range of the model from 2^9 on.
\* A conversion that took every value beyond the range of the model for infinity.
fromScaledSaturating(sg, m, e) ==
    LET k == e - 127 - 14 + 12
    IN  IF k > 8 THEN <<sg, 0>>
        ELSE IF k >= 0 THEN Fx(sg * m * 2^k)
        ELSE IF k < -30 THEN Fx(0)
        ELSE Fx(sg * RoundDiv(m, 2^(-k)))

fromScaled(sg, m, e) ==
    LET k == e - 127 - 14 + 12
    IN  IF k > 8 THEN Huge(sg)
        ELSE IF k >= 0 THEN Fx(sg * m * 2^k)
        ELSE IF k < -30 THEN Fx(0)
        ELSE Fx(sg * RoundDiv(m, 2^(-k)))

\* fisqrt on bit patterns: the value returned for the pattern b of n.
\* A seed that wrapped around is negative and of magnitude 2^63 at least:
\* n * conv.f * conv.f then leaves the range of f32 and the result is -infinity
\* (not a number when the seed is).
fisqrtOfBits(b) ==
    LET s  == fisqrtSeed(b).bits
        sg == IF signBit(s) = 1 THEN -1 ELSE 1
    IN  IF exponentField(s) = 255 /\ mantissaField(s) # <<0, 0>> THEN <<0, 0>>
        ELSE IF exponentField(s) = 255 \/ productExponent(b, s) > 0
        THEN <<sg * (IF signBit(b) = 1 THEN 1 ELSE -1), 0>>
        ELSE fromScaled(sg, (significand(s) * refineFactor(seedProduct(b, s))) \div Scale,
                        exponentField(s))

fisqrt(n) == fisqrtOfBits(floatBits(n))

sign(n) == IF Le(Zero, n) THEN One ELSE Neg(One)

abs(n) == IF Lt(n, Zero) THEN Neg(n) ELSE n

nearlyEqual(a, b, epsilon) == IF Eq(a, b) THEN TRUE ELSE Lt(abs(Sub(a, b)), epsilon)

\* The sum term - term*x2/((k+1)(k+2)) + ... of a sine or cosine series on grid
\* numerators, to the first term that rounds to zero.
RECURSIVE Series(_, _, _)
Series(term, x2, k) ==
    IF term = 0 THEN 0
    ELSE term + Series(-RoundDiv(FxMulInt(term, x2), (k + 1) * (k + 2)), x2, k + 2)

FxSin(x) == Series(x, FxMulInt(x, x), 1)

FxCos(x) == Series(Grid, FxMulInt(x, x), 0)

\* std::sin and std::cos of an angle in radians, |a| <= TAU/2.
Sin(a) == Fx(FxSin(ToFx(a)))

Cos(a) == Fx(FxCos(ToFx(a)))

\* The largest grid angles within TAU/4 and TAU/2.
QuarterTurn == (Num(TAU) * Grid) \div (4 * Den(TAU))

HalfTurn == (Num(TAU) * Grid) \div (2 * Den(TAU))

\* The largest angle t in [lo, hi) with sin(t) <= s, where sin(lo) <= s.
RECURSIVE FxAsinIn(_, _, _)
FxAsinIn(s, lo, hi) ==
    IF hi - lo <= 1 THEN lo
    ELSE LET mid == (lo + hi) \div 2
         IN  IF FxSin(mid) <= s THEN FxAsinIn(s, mid, hi) ELSE FxAsinIn(s, lo, mid)

\* std::asin: on [-1, 1] the angle, outside it not a number.
Asin(a) ==
    LET s == ToFx(a)
    IN  IF Abs(s) > Grid THEN <<0, 0>>
        ELSE Fx(Sgn(s) * (IF Abs(s) = Grid THEN QuarterTurn
                          ELSE FxAsinIn(Abs(s), 0, QuarterTurn + 1)))

\* std::acos: TAU/4 - asin on [-1, 1], outside it not a number.
Acos(a) == Sub(Fx(QuarterTurn), Asin(a))

\* std::tan.
Tan(a) == Div(Sin(a), Cos(a))

\* The angle in [0, TAU/4] of the direction (x, y), x >= 0, y >= 0, not both 0:
\* the largest t in [lo, hi) with x*sin(t) - y*cos(t) <= 0.
RECURSIVE FxAtanIn(_, _, _, _)
FxAtanIn(y, x, lo, hi) ==
    IF hi - lo <= 1 THEN lo
    ELSE LET mid == (lo + hi) \div 2
         IN  IF FxMulInt(x, FxSin(mid)) - FxMulInt(y, FxCos(mid)) <= 0
             THEN FxAtanIn(y, x, mid, hi) ELSE FxAtanIn(y, x, lo, mid)

\* std::atan2(y, x), in [-TAU/2, TAU/2].
Atan2(b, a) ==
    LET y == ToFx(b)
        x == ToFx(a)
        t == FxAtanIn(Abs(y), Abs(x), 0, QuarterTurn + 1)
        u == IF x >= 0 THEN t ELSE HalfTurn - t
    IN  IF x = 0 /\ y = 0 THEN Fx(0) ELSE Fx(IF y >= 0 THEN u ELSE -u)

\* ------------------------------------------------------------ float3
float3(x, y, z) == [x |-> x, y |-> y, z |-> z]

float3Normalized(v) ==
    LET mag  == Add(Add(Mul(v.x, v.x), Mul(v.y, v.y)), Mul(v.z, v.z))
        root == fisqrt(mag)
    IN  float3(Mul(v.x, root), Mul(v.y, root), Mul(v.z, root))

\* float3::normalize(): the value of *this afterwards.
float3Normalize(v) ==
    LET mag  == Add(Add(Mul(v.x, v.x), Mul(v.y, v.y)), Mul(v.z, v.z))
        root == fisqrt(mag)
    IN  [v EXCEPT !.x = Mul(v.x, root), !.y = Mul(v.y, root), !.z = Mul(v.z, root)]

\* A cross product with its operands exchanged.
float3CrossReversed(a, v) ==
    float3(Sub(Mul(v.y, a.z), Mul(v.z, a.y)), Sub(Mul(v.z, a.x), Mul(v.x, a.z)),
           Sub(Mul(v.x, a.y), Mul(v.y, a.x)))

\* float3::cross: a is *this.
float3Cross(a, v) ==
    float3(Sub(Mul(a.y, v.z), Mul(a.z, v.y)), Sub(Mul(a.z, v.x), Mul(a.x, v.z)),
           Sub(Mul(a.x, v.y), Mul(a.y, v.x)))

\* float3::operator*=(f32): the value of *this afterwards.
float3Scale(v, scalar) == float3(Mul(v.x, scalar), Mul(v.y, scalar), Mul(v.z, scalar))

float3Up == float3(Zero, One, Zero)

float3Right == float3(One, Zero, Zero)

float3Forward == float3(Zero, Zero, One)

\* ------------------------------------------------------------ float4
float4(x, y, z, w) == [x |-> x, y |-> y, z |-> z, w |-> w]

float4Dot(a, v) ==
    Add(Add(Add(Mul(a.x, v.x), Mul(a.y, v.y)), Mul(a.z, v.z)), Mul(a.w, v.w))

\* float3::operator float4(): w takes the default argument of float4.
float3ToFloat4(v) == float4(v.x, v.y, v.z, Zero)

\* float4::operator float3().
float4ToFloat3(v) == float3(v.x, v.y, v.z)

\* ------------------------------------------------------------ inverse lerp
\* An inverse lerp gives its value and whether it made its division.
clamp(a, min, max) == IF Lt(max, a) THEN max ELSE IF Lt(a, min) THEN min ELSE a

clamp01(a) == clamp(a, Zero, One)

\* An inverse lerp that divided whatever a and b.
inverseLerpUnguarded(a, b, c) == [value |-> Div(Sub(c, a), Sub(b, a)), divided |-> TRUE]

inverseLerp(a, b, c) ==
    IF Eq(a, b) THEN [value |-> Zero, divided |-> FALSE]
    ELSE [value |-> Div(Sub(c, a), Sub(b, a)), divided |-> TRUE]

inverseLerpClamped(a, b, c) ==
    IF Eq(a, b) THEN [value |-> Zero, divided |-> FALSE]
    ELSE [value |-> clamp01(Div(Sub(c, a), Sub(b, a))), divided |-> TRUE]

float2(x, y) == [x |-> x, y |-> y]

float2Equals(a, b) == Eq(a.x, b.x) /\ Eq(a.y, b.y)

float2Sub(a, b) == float2(Sub(a.x, b.x), Sub(a.y, b.y))

float2SqrMagnitude(v) == Add(Mul(v.x, v.x), Mul(v.y, v.y))

\* float2::normalize(): the value of *this afterwards.
float2Normalize(v) ==
    LET root == fisqrt(float2SqrMagnitude(v))
    IN  [v EXCEPT !.x = Mul(v.x, root), !.y = Mul(v.y, root)]

float2Normalized(v) ==
    LET root == fisqrt(float2SqrMagnitude(v))
    IN  float2(Mul(v.x, root), Mul(v.y, root))

float2Dot(a, v) == Add(Mul(a.x, v.x), Mul(a.y, v.y))

float2InverseLerp(a, b, c) ==
    LET ab == float2Sub(b, a)
        ac == float2Sub(c, a)
    IN  IF float2Equals(a, b) THEN [value |-> Zero, divided |-> FALSE]
        ELSE IF Eq(float2SqrMagnitude(ab), Zero) THEN [value |-> Zero, divided |-> FALSE]
        ELSE IF Eq(float2SqrMagnitude(ac), Zero) THEN [value |-> Zero, divided |-> FALSE]
        ELSE [value |-> Div(float2Dot(ac, ab), float2Dot(ab, ab)), divided |-> TRUE]

float3Equals(a, b) == Eq(a.x, b.x) /\ Eq(a.y, b.y) /\ Eq(a.z, b.z)

float3Sub(a, b) == float3(Sub(a.x, b.x), Sub(a.y, b.y), Sub(a.z, b.z))

float3SqrMagnitude(v) == Add(Add(Mul(v.x, v.x), Mul(v.y, v.y)), Mul(v.z, v.z))

float3Dot(a, v) == Add(Add(Mul(a.x, v.x), Mul(a.y, v.y)), Mul(a.z, v.z))

\* An inverse lerp that gave 0 at the endpoint b as it does at a.
float3InverseLerpZeroAtB(a, b, c) ==
    LET ab == float3Sub(b, a)
        ac == float3Sub(c, a)
    IN  IF float3Equals(a, b) \/ float3Equals(c, a) \/ float3Equals(c, b)
        THEN [value |-> Zero, divided |-> FALSE]
        ELSE [value |-> Div(float3Dot(ac, ab), float3Dot(ab, ab)), divided |-> TRUE]

float3InverseLerp(a, b, c) ==
    LET ab == float3Sub(b, a)
        ac == float3Sub(c, a)
    IN  IF float3Equals(a, b) THEN [value |-> Zero, divided |-> FALSE]
        ELSE IF Eq(float3SqrMagnitude(ab), Zero) THEN [value |-> Zero, divided |-> FALSE]
        ELSE IF Eq(float3SqrMagnitude(ac), Zero) THEN [value |-> Zero, divided |-> FALSE]
        ELSE [value |-> Div(float3Dot(ac, ab), float3Dot(ab, ab)), divided |-> TRUE]

float4Equals(a, b) == Eq(a.x, b.x) /\ Eq(a.y, b.y) /\ Eq(a.z, b.z) /\ Eq(a.w, b.w)

float4Sub(a, b) == float4(Sub(a.x, b.x), Sub(a.y, b.y), Sub(a.z, b.z), Sub(a.w, b.w))

float4SqrMagnitude(v) ==
    Add(Add(Add(Mul(v.x, v.x), Mul(v.y, v.y)), Mul(v.z, v.z)), Mul(v.w, v.w))

\* float4::normalize(): the value of *this afterwards.
float4Normalize(v) ==
    LET root == fisqrt(float4SqrMagnitude(v))
    IN  [v EXCEPT !.x = Mul(v.x, root), !.y = Mul(v.y, root), !.z = Mul(v.z, root),
                  !.w = Mul(v.w, root)]

float4Normalized(v) ==
    LET root == fisqrt(float4SqrMagnitude(v))
    IN  float4(Mul(v.x, root), Mul(v.y, root), Mul(v.z, root), Mul(v.w, root))

float4InverseLerp(a, b, c) ==
    LET ab == float4Sub(b, a)
        ac == float4Sub(c, a)
    IN  IF float4Equals(a, b) THEN [value |-> Zero, divided |-> FALSE]
        ELSE IF Eq(float4SqrMagnitude(ab), Zero) THEN [value |-> Zero, divided |-> FALSE]
        ELSE IF Eq(float4SqrMagnitude(ac), Zero) THEN [value |-> Zero, divided |-> FALSE]
        ELSE [value |-> Div(float4Dot(ac, ab), float4Dot(ab, ab)), divided |-> TRUE]

\* ------------------------------------------------------------ quaternion
quaternion(x, y, z, w) == [x |-> x, y |-> y, z |-> z, w |-> w]

\* A default quaternion whose w were 0 like the other components.
quaternionAllZero == quaternion(Zero, Zero, Zero, Zero)

\* quaternion(): the default arguments of the constructor.
quaternionDefault == quaternion(Zero, Zero, Zero, One)

\* A conjugate that negated w as well.
inversedNegatesW(q) == quaternion(Neg(q.x), Neg(q.y), Neg(q.z), Neg(q.w))

inversed(q) == quaternion(Neg(q.x), Neg(q.y), Neg(q.z), q.w)

\* inverse(): the value of *this after the in-place x *= -1, y *= -1, z *= -1.
inverse(q) ==
    [q EXCEPT !.x = Mul(q.x, I(-1)), !.y = Mul(q.y, I(-1)), !.z = Mul(q.z, I(-1))]

\* A product with the operands taken in the other order.
quaternionMulReversed(p, q) ==
    quaternion(
        Add(Sub(Add(Mul(p.w, q.x), Mul(p.x, q.w)), Mul(p.y, q.z)), Mul(p.z, q.y)),
        Add(Sub(Add(Mul(p.w, q.y), Mul(p.y, q.w)), Mul(p.z, q.x)), Mul(p.x, q.z)),
        Add(Sub(Add(Mul(p.w, q.z), Mul(p.z, q.w)), Mul(p.x, q.y)), Mul(p.y, q.x)),
        Sub(Sub(Sub(Mul(p.w, q.w), Mul(p.x, q.x)), Mul(p.y, q.y)), Mul(p.z, q.z)))

\* A product that scaled its result back to unit length.
quaternionMulRenormalized(p, q) ==
    LET x == Sub(Add(Add(Mul(p.w, q.x), Mul(p.x, q.w)), Mul(p.y, q.z)), Mul(p.z, q.y))
        y == Sub(Add(Add(Mul(p.w, q.y), Mul(p.y, q.w)), Mul(p.z, q.x)), Mul(p.x, q.z))
        z == Sub(Add(Add(Mul(p.w, q.z), Mul(p.z, q.w)), Mul(p.x, q.y)), Mul(p.y, q.x))
        w == Sub(Sub(Sub(Mul(p.w, q.w), Mul(p.x, q.x)), Mul(p.y, q.y)), Mul(p.z, q.z))
        root == fisqrt(Add(Add(Add(Mul(x, x), Mul(y, y)), Mul(z, z)), Mul(w, w)))
    IN  quaternion(Mul(x, root), Mul(y, root), Mul(z, root), Mul(w, root))

\* quaternion::operator*(quaternion): p is *this.
quaternionMul(p, q) ==
    quaternion(
        Sub(Add(Add(Mul(p.w, q.x), Mul(p.x, q.w)), Mul(p.y, q.z)), Mul(p.z, q.y)),
        Sub(Add(Add(Mul(p.w, q.y), Mul(p.y, q.w)), Mul(p.z, q.x)), Mul(p.x, q.z)),
        Sub(Add(Add(Mul(p.w, q.z), Mul(p.z, q.w)), Mul(p.x, q.y)), Mul(p.y, q.x)),
        Sub(Sub(Sub(Mul(p.w, q.w), Mul(p.x, q.x)), Mul(p.y, q.y)), Mul(p.z, q.z)))

\* quaternion::operator*=(quaternion): the value of *this afterwards. Each
\* statement reads the components the statements before it have assigned.
quaternionMulAssign(p, q) ==
    LET p1 == [p  EXCEPT !.x = Sub(Add(Add(Mul(p.w, q.x), Mul(p.x, q.w)), Mul(p.y, q.z)),
                                   Mul(p.z, q.y))]
        p2 == [p1 EXCEPT !.y = Sub(Add(Add(Mul(p1.w, q.y), Mul(p1.y, q.w)), Mul(p1.z, q.x)),
                                   Mul(p1.x, q.z))]
        p3 == [p2 EXCEPT !.z = Sub(Add(Add(Mul(p2.w, q.z), Mul(p2.z, q.w)), Mul(p2.x, q.y)),
                                   Mul(p2.y, q.x))]
    IN  [p3 EXCEPT !.w = Sub(Sub(Sub(Mul(p3.w, q.w), Mul(p3.x, q.x)), Mul(p3.y, q.y)),
                             Mul(p3.z, q.z))]

\* A rotation whose w terms had the opposite signs: the rotation by the inverse.
quaternionRotateBack(q, v) ==
    LET x2 == Add(q.x, q.x)
        y2 == Add(q.y, q.y)
        z2 == Add(q.z, q.z)
        yy == Mul(q.y, y2)
        xy == Mul(q.x, y2)
        xz == Mul(q.x, z2)
        yz == Mul(q.y, z2)
        zz == Mul(q.z, z2)
        wz == Mul(q.w, z2)
        wy == Mul(q.w, y2)
        wx == Mul(q.w, x2)
        xx == Mul(q.x, x2)
    IN  float3(
            Add(Add(Mul(Sub(Sub(One, yy), zz), v.x), Mul(Add(xy, wz), v.y)),
                Mul(Sub(xz, wy), v.z)),
            Add(Add(Mul(Sub(xy, wz), v.x), Mul(Sub(Sub(One, xx), zz), v.y)),
                Mul(Add(yz, wx), v.z)),
            Add(Add(Mul(Add(xz, wy), v.x), Mul(Sub(yz, wx), v.y)),
                Mul(Sub(Sub(One, xx), yy), v.z)))

\* quaternion::operator*(float3): q is *this.
quaternionRotate(q, v) ==
    LET x2 == Add(q.x, q.x)
        y2 == Add(q.y, q.y)
        z2 == Add(q.z, q.z)
        yy == Mul(q.y, y2)
        xy == Mul(q.x, y2)
        xz == Mul(q.x, z2)
        yz == Mul(q.y, z2)
        zz == Mul(q.z, z2)
        wz == Mul(q.w, z2)
        wy == Mul(q.w, y2)
        wx == Mul(q.w, x2)
        xx == Mul(q.x, x2)
    IN  float3(
            Add(Add(Mul(Sub(Sub(One, yy), zz), v.x), Mul(Sub(xy, wz), v.y)),
                Mul(Add(xz, wy), v.z)),
            Add(Add(Mul(Add(xy, wz), v.x), Mul(Sub(Sub(One, xx), zz), v.y)),
                Mul(Sub(yz, wx), v.z)),
            Add(Add(Mul(Sub(xz, wy), v.x), Mul(Add(yz, wx), v.y)),
                Mul(Sub(Sub(One, xx), yy), v.z)))

quaternionSqrMagnitude(q) ==
    Add(Add(Add(Mul(q.x, q.x), Mul(q.y, q.y)), Mul(q.z, q.z)), Mul(q.w, q.w))

\* quaternion::normalize(): the value of *this afterwards.
quaternionNormalize(q) ==
    LET root == fisqrt(quaternionSqrMagnitude(q))
    IN  [q EXCEPT !.x = Mul(q.x, root), !.y = Mul(q.y, root), !.z = Mul(q.z, root),
                  !.w = Mul(q.w, root)]

quaternionNormalized(q) ==
    LET root == fisqrt(quaternionSqrMagnitude(q))
    IN  quaternion(Mul(q.x, root), Mul(q.y, root), Mul(q.z, root), Mul(q.w, root))

\* Whether toAngleAxis returns before outAxis *= s, for the quaternion q it
\* works on and s = fisqrt(1 - scalar * scalar).
axisLeftRaw(q, s) == nearlyEqual(s, Zero, Q(1, 1000))

\* toAngleAxis: the quaternion q worked on, s, outAngle and outAxis.
toAngleAxis(this) ==
    LET q   == IF Lt(One, this.w) THEN quaternionNormalized(this) ELSE this
        s   == fisqrt(Sub(One, Mul(q.w, q.w)))
        raw == float3(q.x, q.y, q.z)
    IN  [q |-> q, s |-> s, outAngle |-> Mul(Two, Acos(q.w)),
         outAxis |-> IF axisLeftRaw(q, s) THEN raw ELSE float3Scale(raw, s)]

fromAngleAxis(angle, axis) ==
    LET n    == float3Normalized(axis)
        sin2 == Sin(Mul(angle, Half))
        cos2 == Cos(Mul(angle, Half))
    IN  quaternion(Mul(n.x, sin2), Mul(n.y, sin2), Mul(n.z, sin2), cos2)

fromEulerAngles(angles) ==
    LET x == fromAngleAxis(angles.x, float3Right)
        y == fromAngleAxis(angles.y, float3Up)
        z == fromAngleAxis(angles.z, float3Forward)
    IN  quaternionMul(quaternionMul(x, y), z)

\* A pitch that called std::asin whatever its sine term.
eulerPitchUnguarded(sin) == [value |-> Asin(sin), asinCalled |-> TRUE, asinArg |-> sin]

\* The pitch of toEulerAngles from its sine term: the value, whether std::asin
\* was called, and with which argument.
eulerPitch(sin) ==
    IF Le(One, abs(sin))
    THEN [value |-> Mul(Div(TAU, I(4)), sign(sin)), asinCalled |-> FALSE, asinArg |-> Zero]
    ELSE [value |-> Asin(sin), asinCalled |-> TRUE, asinArg |-> sin]

\* The sine term 2(w*y - z*x) of toEulerAngles.
eulerSinTerm(q) == Mul(Two, Sub(Mul(q.w, q.y), Mul(q.z, q.x)))

toEulerAngles(q) ==
    LET xsc == Mul(Two, Add(Mul(q.w, q.x), Mul(q.y, q.z)))
        xcc == Sub(One, Mul(Two, Add(Mul(q.x, q.x), Mul(q.y, q.y))))
        zsc == Mul(Two, Add(Mul(q.w, q.z), Mul(q.x, q.y)))
        zcc == Sub(One, Mul(Two, Add(Mul(q.y, q.y), Mul(q.z, q.z))))
    IN  float3(Atan2(xsc, xcc), eulerPitch(eulerSinTerm(q)).value, Atan2(zsc, zcc))

\* ------------------------------------------------------------ float4x4
float4x4(a, b, c, d) == [a |-> a, b |-> b, c |-> c, d |-> d]

\* float4x4(): the default arguments of the constructor.
float4x4Default ==
    float4x4(float4(One, Zero, Zero, Zero), float4(Zero, One, Zero, Zero),
             float4(Zero, Zero, One, Zero), float4(Zero, Zero, Zero, One))

\* float4::values[j] of a row.
component(r, j) == CASE j = 0 -> r.x [] j = 1 -> r.y [] j = 2 -> r.z [] j = 3 -> r.w

\* float4x4::values[i][j].
values(m, i, j) ==
    component(CASE i = 0 -> m.a [] i = 1 -> m.b [] i = 2 -> m.c [] i = 3 -> m.d, j)

getColumn(m, index) ==
    float4(values(m, 0, index), values(m, 1, index), values(m, 2, index),
           values(m, 3, index))

\* float4x4::operator*(float4x4): t is *this.
float4x4Mul(t, m) ==
    LET ma == getColumn(m, 0)
        mb == getColumn(m, 1)
        mc == getColumn(m, 2)
        md == getColumn(m, 3)
        row(r) == float4(float4Dot(r, ma), float4Dot(r, mb), float4Dot(r, mc),
                         float4Dot(r, md))
    IN  float4x4(row(t.a), row(t.b), row(t.c), row(t.d))

\* A rotation matrix whose w terms had the opposite signs: the transpose.
fromRotationTransposed(q) ==
    LET x2 == Add(q.x, q.x)
        y2 == Add(q.y, q.y)
        z2 == Add(q.z, q.z)
        yy == Mul(q.y, y2)
        xy == Mul(q.x, y2)
        xz == Mul(q.x, z2)
        yz == Mul(q.y, z2)
        zz == Mul(q.z, z2)
        wz == Mul(q.w, z2)
        wy == Mul(q.w, y2)
        wx == Mul(q.w, x2)
        xx == Mul(q.x, x2)
    IN  float4x4(
            float4(Sub(Sub(One, yy), zz), Add(xy, wz), Sub(xz, wy), Zero),
            float4(Sub(xy, wz), Sub(Sub(One, xx), zz), Add(yz, wx), Zero),
            float4(Add(xz, wy), Sub(yz, wx), Sub(Sub(One, xx), yy), Zero),
            float4(Zero, Zero, Zero, One))

fromRotation(q) ==
    LET x2 == Add(q.x, q.x)
        y2 == Add(q.y, q.y)
        z2 == Add(q.z, q.z)
        yy == Mul(q.y, y2)
        xy == Mul(q.x, y2)
        xz == Mul(q.x, z2)
        yz == Mul(q.y, z2)
        zz == Mul(q.z, z2)
        wz == Mul(q.w, z2)
        wy == Mul(q.w, y2)
        wx == Mul(q.w, x2)
        xx == Mul(q.x, x2)
    IN  float4x4(
            float4(Sub(Sub(One, yy), zz), Sub(xy, wz), Add(xz, wy), Zero),
            float4(Add(xy, wz), Sub(Sub(One, xx), zz), Sub(yz, wx), Zero),
            float4(Sub(xz, wy), Add(yz, wx), Sub(Sub(One, xx), yy), Zero),
            float4(Zero, Zero, Zero, One))

\* float4x4::operator*(float4): m is *this.
float4x4MulFloat4(m, v) ==
    float4(float4Dot(m.a, v), float4Dot(m.b, v), float4Dot(m.c, v), float4Dot(m.d, v))

\* float4x4::operator*(float3): m is *this.
float4x4MulFloat3(m, v) == float4ToFloat3(float4x4MulFloat4(m, float4(v.x, v.y, v.z, One)))

\* A perspectiveDX whose a and h were those of perspectiveGL.
perspectiveDXSymmetric(fov, aspectRatio, near, far) ==
    LET tangent == Tan(Mul(Mul(fov, Half), DEG_TO_RAD))
        yScale  == Div(One, tangent)
        xScale  == Div(yScale, aspectRatio)
        a       == Div(Neg(Add(far, near)), Sub(far, near))
        h       == Div(Mul(Mul(Two, far), near), Sub(far, near))
    IN  float4x4(float4(xScale, Zero, Zero, Zero), float4(Zero, yScale, Zero, Zero),
                 float4(Zero, Zero, a, One), float4(Zero, Zero, h, Zero))

\* float4x4::perspectiveDX: fov is in degrees.
perspectiveDX(fov, aspectRatio, near, far) ==
    LET tangent == Tan(Mul(Mul(fov, Half), DEG_TO_RAD))
        yScale  == Div(One, tangent)
        xScale  == Div(yScale, aspectRatio)
        a       == Div(far, Sub(far, near))
        h       == Mul(Neg(a), near)
    IN  float4x4(float4(xScale, Zero, Zero, Zero), float4(Zero, yScale, Zero, Zero),
                 float4(Zero, Zero, a, One), float4(Zero, Zero, h, Zero))

orthoDX(width, height, near, far) ==
    LET range == Div(One, Sub(far, near))
    IN  float4x4(float4(Div(Two, width), Zero, Zero, Zero),
                 float4(Zero, Div(Two, height), Zero, Zero),
                 float4(Zero, Zero, range, Zero),
                 float4(Zero, Zero, Mul(Neg(range), near), One))

\* The row vector v times the matrix m: v against each column of m.
rowTimes(v, m) ==
    float4(float4Dot(v, getColumn(m, 0)), float4Dot(v, getColumn(m, 1)),
           float4Dot(v, getColumn(m, 2)), float4Dot(v, getColumn(m, 3)))

perspectiveGL(fov, aspectRatio, near, far) ==
    LET tangent == Tan(Mul(fov, Half))
        yScale  == Div(One, tangent)
        xScale  == Div(yScale, aspectRatio)
        a       == Div(Neg(Add(far, near)), Sub(far, near))
        h       == Div(Mul(Mul(Two, far), near), Sub(far, near))
    IN  float4x4(float4(xScale, Zero, Zero, Zero), float4(Zero, yScale, Zero, Zero),
                 float4(Zero, Zero, a, One), float4(Zero, Zero, h, Zero))

orthoGL(left, right, bottom, top, near, far) ==
    float4x4(float4(Div(Two, Sub(right, left)), Zero, Zero, Zero),
             float4(Zero, Div(Two, Sub(top, bottom)), Zero, Zero),
             float4(Zero, Zero, Div(Neg(Two), Sub(far, near)), Zero),
             float4(Div(Neg(Add(right, left)), Sub(right, left)),
                    Div(Neg(Add(top, bottom)), Sub(top, bottom)),
                    Div(Neg(Add(far, near)), Sub(far, near)), Zero))

lookAt(point, eye, up) ==
    LET upn   == float3Normalize(up)
        zaxis == float3Normalized(float3Sub(point, eye))
        xaxis == float3Normalized(float3Cross(upn, zaxis))
        yaxis == float3Cross(zaxis, xaxis)
        w     == float4(Neg(float3Dot(xaxis, eye)), Neg(float3Dot(yaxis, eye)),
                        Neg(float3Dot(zaxis, eye)), One)
    IN  float4x4(float3ToFloat4(xaxis), float3ToFloat4(yaxis), float3ToFloat4(zaxis), w)

\* A translation() that read the fourth row, values[3][0..2], instead.
translationFromRow(m) ==
    float4x4(float4(One, Zero, Zero, values(m, 3, 0)), float4(Zero, One, Zero, values(m, 3, 1)),
             float4(Zero, Zero, One, values(m, 3, 2)), float4(Zero, Zero, Zero, One))

\* float4x4::translation(): m is *this.
translation(m) ==
    float4x4(float4(One, Zero, Zero, values(m, 0, 3)), float4(Zero, One, Zero, values(m, 1, 3)),
             float4(Zero, Zero, One, values(m, 2, 3)), float4(Zero, Zero, Zero, One))

\* float4x4::rotationAndScale(): the rows go through float3 and back, the
\* fourth row is the default argument of the constructor.
rotationAndScale(m) ==
    float4x4(float3ToFloat4(float4ToFloat3(m.a)), float3ToFloat4(float4ToFloat3(m.b)),
             float3ToFloat4(float4ToFloat3(m.c)), float4(Zero, Zero, Zero, One))

\* float4x4::translate(t).
translate(t) ==
    float4x4(float4(One, Zero, Zero, t.x), float4(Zero, One, Zero, t.y),
             float4(Zero, Zero, One, t.z), float4(Zero, Zero, Zero, One))

\* toRotation's trace = values[0][0] + values[1][1] + values[2][2].
trace(m) == Add(Add(values(m, 0, 0), values(m, 1, 1)), values(m, 2, 2))

\* toRotationBranch with the second branch taken on values[0][0] > values[1][1]
\* alone.
toRotationBranchNoM22(m) ==
    IF Lt(Zero, trace(m)) THEN "w"
    ELSE IF Lt(values(m, 1, 1), values(m, 0, 0)) THEN "x"
    ELSE IF Lt(values(m, 2, 2), values(m, 1, 1)) THEN "y"
    ELSE "z"

\* The branch toRotation takes, named by the component it makes dominant.
toRotationBranch(m) ==
    IF Lt(Zero, trace(m)) THEN "w"
    ELSE IF Lt(values(m, 1, 1), values(m, 0, 0)) /\ Lt(values(m, 2, 2), values(m, 0, 0))
         THEN "x"
    ELSE IF Lt(values(m, 2, 2), values(m, 1, 1)) THEN "y"
    ELSE "z"

\* The value toRotation passes to fisqrt in branch b: trace + 1.0f, or trace1.
toRotationArg(m, b) ==
    CASE b = "w" -> Add(trace(m), One)
      [] b = "x" -> Add(Sub(Sub(values(m, 0, 0), values(m, 1, 1)), values(m, 2, 2)), One)
      [] b = "y" -> Add(Sub(Add(Neg(values(m, 0, 0)), values(m, 1, 1)), values(m, 2, 2)), One)
      [] b = "z" -> Add(Add(Sub(Neg(values(m, 0, 0)), values(m, 1, 1)), values(m, 2, 2)), One)

toRotation(m) ==
    LET b    == toRotationBranch(m)
        t    == toRotationArg(m, b)
        root == Mul(fisqrt(t), Half)
    IN  CASE b = "w" ->
               quaternion(Mul(Sub(values(m, 1, 2), values(m, 2, 1)), root),
                          Mul(Sub(values(m, 2, 0), values(m, 0, 2)), root),
                          Mul(Sub(values(m, 0, 1), values(m, 1, 0)), root),
                          Mul(root, t))
          [] b = "x" ->
               quaternion(Mul(root, t),
                          Mul(Add(values(m, 0, 1), values(m, 1, 0)), root),
                          Mul(Add(values(m, 2, 0), values(m, 0, 2)), root),
                          Mul(Sub(values(m, 1, 2), values(m, 2, 1)), root))
          [] b = "y" ->
               quaternion(Mul(Add(values(m, 0, 1), values(m, 1, 0)), root),
                          Mul(root, t),
                          Mul(Add(values(m, 1, 2), values(m, 2, 1)), root),
                          Mul(Sub(values(m, 2, 0), values(m, 0, 2)), root))
          [] b = "z" ->
               quaternion(Mul(Add(values(m, 2, 0), values(m, 0, 2)), root),
                          Mul(Add(values(m, 1, 2), values(m, 2, 1)), root),
                          Mul(root, t),
                          Mul(Sub(values(m, 0, 1), values(m, 1, 0)), root))

\* ------------------------------------------------------------ inputs
\* Largest denominator of the components of a unit quaternion.
MaxDenom == 3

\* Largest magnitude of an integer component of a quaternion, vector or matrix.
MaxCoord == 1

\* Largest number of successive multiplications of one quaternion.
MaxMuls == 3

\* Euler angles are multiples of TAU/8, up to MaxAngleStep of them.
MaxAngleStep == 3

\* The unit quaternions (a, b, c, d)/n, n <= MaxDenom.
UnitQuats ==
    UNION { { quaternion(Q(a, n), Q(b, n), Q(c, n), Q(d, n)) :
                <<a, b, c, d>> \in { t \in (-n..n) \X (-n..n) \X (-n..n) \X (-n..n) :
                    t[1] * t[1] + t[2] * t[2] + t[3] * t[3] + t[4] * t[4] = n * n } } :
            n \in 1..MaxDenom }

\* A few unit quaternions with other denominators, one per branch of toRotation
\* and with strictly ordered diagonals.
MoreUnitQuats ==
    { quaternion(Q(3, 5), Zero, Zero, Q(4, 5)),
      quaternion(Q(4, 5), Zero, Q(-3, 5), Zero),
      quaternion(Q(2, 7), Q(6, 7), Q(-3, 7), Zero),
      quaternion(Q(-2, 7), Q(3, 7), Q(6, 7), Zero),
      quaternion(Q(6, 7), Q(2, 7), Q(3, 7), Zero),
      quaternion(Q(3, 7), Q(2, 7), Q(6, 7), Zero),
      quaternion(Zero, Q(4, 5), Q(3, 5), Zero),
      quaternion(Q(1, 5), Q(2, 5), Q(2, 5), Q(4, 5)),
      quaternion(Q(2, 5), Q(-4, 5), Q(1, 5), Q(2, 5)) }

\* Quaternions of any norm, with integer components.
Quats ==
    { quaternion(I(a), I(b), I(c), I(d)) :
        a \in -MaxCoord..MaxCoord, b \in -MaxCoord..MaxCoord,
        c \in -MaxCoord..MaxCoord, d \in -MaxCoord..MaxCoord }
    \cup { quaternion(Zero, Half, Zero, One), quaternion(Zero, I(-1), Zero, Half),
           quaternion(Half, Zero, I(2), Q(-3, 2)), quaternion(Q(3, 2), I(2), Half, I(-1)) }

Vecs ==
    { float3(One, Zero, Zero), float3(Zero, One, Zero), float3(Zero, Zero, One),
      float3(I(1), I(-2), I(3)), float3(Q(-1, 2), Zero, I(2)) }

\* Operands of the composed rotations and of the successive multiplications.
Operands ==
    { quaternion(Q(3, 5), Zero, Q(4, 5), Zero), quaternion(Half, Half, Q(-1, 2), Half),
      quaternion(Q(2, 3), Q(-1, 3), Zero, Q(2, 3)), quaternion(Zero, Zero, I(-1), Zero),
      quaternion(I(1), I(1), Zero, I(-1)), quaternion(Zero, Half, One, Zero) }

UnitOperands == { q \in Operands : quaternionSqrMagnitude(q) = One }

\* The diagonal entries d and the skew part k of a matrix that need not be a
\* rotation: values[i][i] = d[i], values[i][j] = k and values[j][i] = -k (i < j).
skewMatrix(d, k) ==
    float4x4(float4(I(d[1]), I(k), I(k), Zero), float4(I(-k), I(d[2]), I(k), Zero),
             float4(I(-k), I(-k), I(d[3]), Zero), float4(Zero, Zero, Zero, One))

\* A matrix of sixteen different entries: values[i][j] = s * (4i + j) + t.
denseMatrix(s, t) ==
    LET e(i, j) == I(s * (4 * i + j) + t)
        row(i) == float4(e(i, 0), e(i, 1), e(i, 2), e(i, 3))
    IN  float4x4(row(0), row(1), row(2), row(3))

Matrices ==
    { fromRotation(q) : q \in MoreUnitQuats }
    \cup { denseMatrix(s, t) : s \in 1..(MaxCoord + 1), t \in -MaxCoord..MaxCoord }

\* Quaternions of a rotation by a small angle or by none, of unit norm or
\* not, and quaternions whose scalar is beyond 1.
SmallAngleQuats ==
    { quaternion(Zero, Zero, Zero, One), quaternion(Half, Zero, Zero, One),
      quaternion(Q(1, 32), Zero, Zero, Q(2047, 2048)),
      quaternion(Zero, Q(-1, 32), Q(1, 64), Q(-2047, 2048)),
      quaternion(I(1), Zero, Zero, I(2)), quaternion(Zero, I(1), Zero, I(-2)) }

\* The affine matrix of the upper-left 3x3 block of m and the translation
\* column t, values[0..2][3]; its last row is (0, 0, 0, 1).
affine(m, t) ==
    float4x4([m.a EXCEPT !.w = t.x], [m.b EXCEPT !.w = t.y], [m.c EXCEPT !.w = t.z],
             float4(Zero, Zero, Zero, One))

\* The targets, eyes and up vectors of lookAt.
Targets ==
    { float3(I(x), I(y), I(z)) :
        x \in -MaxCoord..MaxCoord, y \in -MaxCoord..MaxCoord, z \in -MaxCoord..MaxCoord }

Eyes == { float3(Zero, Zero, Zero), float3(I(1), Zero, I(-1)), float3(I(1), I(2), I(2)) }

Ups == { float3(Zero, One, Zero), float3(Zero, Two, Zero), float3(One, One, Zero),
         float3(Zero, Zero, One) }

\* The near and far planes 0 < near < far <= MaxNear + 2 of the projections.
MaxNear == 3

Planes == { <<n, f>> \in (1..MaxNear) \X (2..(MaxNear + 2)) : n < f }

\* Bit patterns of positive finite floats, 0x00000001 to 0x7F7FFFFF: upper
\* halves spread over the range in MaxHiStep steps, with the ends of the
\* denormal and of the normal range, and lower halves at their ends.
MaxHiStep == 16

UpperHalves ==
    { (k * 32639) \div MaxHiStep : k \in 0..MaxHiStep } \cup {0, 1, 127, 128, 16256, 32639}

LowerHalves == {0, 1, 32768, 65535}

PositiveFinite == { b \in UpperHalves \X LowerHalves : b # <<0, 0>> }

\* Bit patterns of the floats 2^-MaxExponent to 2^MaxExponent, the fraction in
\* steps of 1/32 and just below the next power of two.
MaxExponent == 8

Representative ==
    { <<(127 + e) * 2^7 + 4 * f, lo>> : e \in -MaxExponent..MaxExponent, f \in 0..31,
                                         lo \in {0} }
    \cup { <<(127 + e) * 2^7 + 127, 65535>> : e \in -MaxExponent..MaxExponent }

\* Vectors to normalize, the zero vector among them.
Lengths2 == { float2(I(x), I(y)) : x \in -MaxCoord..MaxCoord, y \in -MaxCoord..MaxCoord }

Lengths4 ==
    { float4(I(x), I(y), I(z), I(w)) :
        x \in -MaxCoord..MaxCoord, y \in -MaxCoord..MaxCoord,
        z \in -MaxCoord..MaxCoord, w \in -MaxCoord..MaxCoord }

\* Scalars and points whose coordinates are the halves from 0 to MaxPoint.
MaxPoint == 1

Halves == { Q(k, 2) : k \in 0..(2 * MaxPoint) }

Points2 == { float2(I(x), I(y)) : x \in 0..MaxPoint, y \in 0..MaxPoint }

Points3 == { float3(I(x), I(y), I(z)) : x \in 0..MaxPoint, y \in 0..MaxPoint, z \in 0..MaxPoint }

Points4 ==
    { float4(I(x), I(y), I(z), I(w)) :
        x \in 0..MaxPoint, y \in 0..MaxPoint, z \in 0..MaxPoint, w \in 0..MaxPoint }

\* The angle k * TAU/8.
eighths(k) == Mul(TAU, Q(k, 8))

RollSteps == { k \in -MaxAngleStep..MaxAngleStep : Abs(k) <= 4 }

\* The pitch stays within [-TAU/4, TAU/4].
PitchSteps == { k \in -MaxAngleStep..MaxAngleStep : Abs(k) <= 2 }

\* ------------------------------------------------------------ state
\* The last call made on the library: its name, its arguments, its results.
VARIABLES call

vars == <<call>>

Init == call = [op |-> "none"]

\* No call is in progress.
Idle == call.op = "none"

\* The call returns: the library is ready for the next one.
Return ==
    /\ ~Idle
    /\ call' = [op |-> "none"]

\* ------------------------------------------- rotation matrix <-> quaternion
\* What toRotation does on m: the branch, the fisqrt argument, the quaternion.
extraction(m) ==
    [branch |-> toRotationBranch(m),
     arg    |-> toRotationArg(m, toRotationBranch(m)),
     r      |-> toRotation(m)]

\* fromRotation(fromRotation(q).toRotation()) for a unit quaternion q.
RoundTrip ==
    /\ Idle
    /\ \E q \in UnitQuats \cup MoreUnitQuats :
         LET m == fromRotation(q)
             e == extraction(m)
         IN  call' = [op |-> "roundTrip", q |-> q, m |-> m, branch |-> e.branch,
                      arg |-> e.arg, r |-> e.r, m2 |-> fromRotation(e.r)]

\* m.toRotation() for a matrix m that need not be a rotation.
Extract ==
    /\ Idle
    /\ \E d \in (-MaxCoord..MaxCoord) \X (-MaxCoord..MaxCoord) \X (-MaxCoord..MaxCoord),
          k \in 0..1 :
         LET m == skewMatrix(d, k)
             e == extraction(m)
         IN  call' = [op |-> "toRotation", m |-> m, branch |-> e.branch,
                      arg |-> e.arg, r |-> e.r]

NextRotation == RoundTrip \/ Extract \/ Return

SpecRotation == Init /\ [][NextRotation]_vars

\* The tolerance of the comparisons between rounded values.
Tolerance == Q(1, 100)

Near(a, b) == Le(abs(Sub(a, b)), Tolerance)

NearVec(a, b) == Near(a.x, b.x) /\ Near(a.y, b.y) /\ Near(a.z, b.z)

NearRow(a, b) == Near(a.x, b.x) /\ Near(a.y, b.y) /\ Near(a.z, b.z) /\ Near(a.w, b.w)

NearMatrix(m, n) ==
    NearRow(m.a, n.a) /\ NearRow(m.b, n.b) /\ NearRow(m.c, n.c) /\ NearRow(m.d, n.d)

\* C1: for every unit quaternion q the matrix R = fromRotation(q) is
\* reconstructed by the round trip: fromRotation(R.toRotation()) equals R
\* within the tolerance, in every branch of toRotation.
C1_RoundTripReconstructs == call.op = "roundTrip" => NearMatrix(call.m2, call.m)

\* The diagonal entry values[i][i] of the matrix of the last call.
diag(i) == values(call.m, i, i)

\* C2: toRotation takes the w branch exactly when the trace is positive, and
\* otherwise the branch x, y or z whose diagonal entry is greater than or equal
\* to both others, for every matrix, tied diagonals included.
C2_BranchByTraceRule ==
    call.op \in {"roundTrip", "toRotation"} =>
        /\ Lt(Zero, trace(call.m)) <=> call.branch = "w"
        /\ call.branch = "x" => Le(diag(1), diag(0)) /\ Le(diag(2), diag(0))
        /\ call.branch = "y" => Le(diag(0), diag(1)) /\ Le(diag(2), diag(1))
        /\ call.branch = "z" => Le(diag(0), diag(2)) /\ Le(diag(1), diag(2))
        /\ call.branch \in {"w", "x", "y", "z"}

\* A matrix with non-positive trace and values[0][0] = values[1][1], the tie
\* resolved to the y branch.
C2_TiedDiagonalWitness ==
    /\ call.op = "toRotation"
    /\ call.branch = "y"
    /\ Eq(diag(0), diag(1))

\* C3: on the rotation matrix of a unit quaternion, the value toRotation passes
\* to fisqrt in the branch it takes is at least 1.
C3_FisqrtArgAtLeastOne == call.op = "roundTrip" => Le(One, call.arg)

\* A rotation taken through a diagonal branch with the argument exactly 1.
C3_TightArgWitness ==
    /\ call.op = "roundTrip"
    /\ call.branch # "w"
    /\ call.arg = One

\* ------------------------------------------------------ quaternion algebra
\* The quaternion (v.x, v.y, v.z, 0) of a vector, and the vector part of a
\* quaternion.
pure(v) == quaternion(v.x, v.y, v.z, Zero)

vectorPart(q) == float3(q.x, q.y, q.z)

\* (p * q) * v and p * (q * v) for unit quaternions p, q.
Compose ==
    /\ Idle
    /\ \E p \in UnitQuats, q \in UnitOperands, v \in Vecs :
         call' = [op |-> "compose", p |-> p, q |-> q, v |-> v,
                  lhs |-> quaternionRotate(quaternionMul(p, q), v),
                  rhs |-> quaternionRotate(p, quaternionRotate(q, v))]

\* q * v for a unit quaternion q, beside the conjugation q * (v, 0) * q.inversed().
Rotate ==
    /\ Idle
    /\ \E q \in UnitQuats \cup MoreUnitQuats, v \in Vecs :
         call' = [op |-> "rotate", q |-> q, v |-> v,
                  r |-> quaternionRotate(q, v),
                  conj |-> quaternionMul(quaternionMul(q, pure(v)), inversed(q))]

\* q * v for q = fromAngleAxis(angle, axis).
RotateAngleAxis ==
    /\ Idle
    /\ \E k \in RollSteps, v \in Vecs,
          axis \in {float3Right, float3Up, float3Forward, float3(Zero, Two, Zero)} :
         LET q == fromAngleAxis(eighths(k), axis)
         IN  call' = [op |-> "rotateAngleAxis", angle |-> eighths(k), axis |-> axis,
                      q |-> q, v |-> v,
                      r |-> quaternionRotate(q, v),
                      conj |-> quaternionMul(quaternionMul(q, pure(v)), inversed(q))]

\* q.inversed(), q.inverse() and q * q.inversed().
Inverse ==
    /\ Idle
    /\ \E q \in Quats \cup MoreUnitQuats :
         call' = [op |-> "inverse", q |-> q, inversed |-> inversed(q),
                  inverse |-> inverse(q), prod |-> quaternionMul(q, inversed(q))]

\* p * q.
Multiply ==
    /\ Idle
    /\ \E p \in Quats, q \in Operands :
         call' = [op |-> "multiply", p |-> p, q |-> q, r |-> quaternionMul(p, q)]

\* A quaternion acc that is then multiplied again and again; norm is the product
\* of the squared magnitudes of the operands so far.
MulLoad ==
    /\ Idle
    /\ \E p \in Operands :
         call' = [op |-> "mul", acc |-> p, norm |-> quaternionSqrMagnitude(p), n |-> 0]

MulStep ==
    /\ call.op = "mul"
    /\ call.n < MaxMuls
    /\ \E q \in Operands :
         call' = [op |-> "mul", acc |-> quaternionMul(call.acc, q),
                  norm |-> Mul(call.norm, quaternionSqrMagnitude(q)), n |-> call.n + 1]

\* quaternion() * q and q * quaternion().
IdentityQuaternion ==
    /\ Idle
    /\ \E q \in Quats \cup MoreUnitQuats :
         call' = [op |-> "identityQuaternion", q |-> q,
                  l |-> quaternionMul(quaternionDefault, q),
                  r |-> quaternionMul(q, quaternionDefault)]

\* quaternion() * v.
IdentityVector ==
    /\ Idle
    /\ \E v \in Vecs :
         call' = [op |-> "identityVector", v |-> v,
                  r |-> quaternionRotate(quaternionDefault, v)]

\* float4x4() * m and m * float4x4().
IdentityMatrix ==
    /\ Idle
    /\ \E m \in Matrices :
         call' = [op |-> "identityMatrix", m |-> m,
                  l |-> float4x4Mul(float4x4Default, m),
                  r |-> float4x4Mul(m, float4x4Default)]

NextAlgebra ==
    \/ Compose \/ Rotate \/ RotateAngleAxis \/ Inverse \/ Multiply \/ MulLoad \/ MulStep
    \/ IdentityQuaternion \/ IdentityVector \/ IdentityMatrix \/ Return

SpecAlgebra == Init /\ [][NextAlgebra]_vars

\* C4: for unit quaternions p, q and a vector v, (p * q) * v equals
\* p * (q * v): the product p * q applies q first and then p.
C4_CompositionRightToLeft == call.op = "compose" => call.lhs = call.rhs

\* A composition in which the order matters: applying p first gives another vector.
C4_OrderMattersWitness ==
    /\ call.op = "compose"
    /\ call.lhs # quaternionRotate(call.q, quaternionRotate(call.p, call.v))

QuarterTurnAboutY ==
    /\ call.op = "rotateAngleAxis"
    /\ call.angle = Div(TAU, I(4))
    /\ call.axis = float3Up
    /\ call.v = float3(Zero, Zero, One)

\* C5: for a unit quaternion q and a vector v, q * v is the vector part of the
\* Hamilton product q * (v.x, v.y, v.z, 0) * q.inversed() (exactly where q is
\* exact, within the tolerance where q comes from rounded sines and cosines),
\* and the rotation by 90 degrees about Y maps (0,0,1) to (1,0,0).
C5_RotateIsConjugation ==
    /\ call.op = "rotate" => call.r = vectorPart(call.conj)
    /\ call.op = "rotateAngleAxis" => NearVec(call.r, vectorPart(call.conj))
    /\ QuarterTurnAboutY => NearVec(call.r, float3(One, Zero, Zero))

C5_QuarterTurnWitness == QuarterTurnAboutY /\ ~ NearVec(call.r, call.v)

\* C6: inversed() and inverse() negate x, y, z and keep w; q * q.inversed() is
\* (0, 0, 0, sqrMagnitude(q)), which is the identity (0,0,0,1) exactly when
\* q is of unit norm.
C6_InversedIsConjugate ==
    call.op = "inverse" =>
        /\ Add(call.inversed.x, call.q.x) = Zero
        /\ Add(call.inversed.y, call.q.y) = Zero
        /\ Add(call.inversed.z, call.q.z) = Zero
        /\ call.inversed.w = call.q.w
        /\ call.inverse = call.inversed
        /\ call.prod = quaternion(Zero, Zero, Zero, quaternionSqrMagnitude(call.q))
        /\ call.prod = quaternion(Zero, Zero, Zero, One)
               <=> quaternionSqrMagnitude(call.q) = One

\* A quaternion that is not of unit norm, whose product with its conjugate is
\* not the identity.
C6_NotAnInverseWitness ==
    /\ call.op = "inverse"
    /\ Lt(One, quaternionSqrMagnitude(call.q))
    /\ call.q.x # Zero /\ call.q.w # Zero
    /\ call.prod # quaternion(Zero, Zero, Zero, One)

\* C7: sqrMagnitude(p * q) equals sqrMagnitude(p) * sqrMagnitude(q), and after
\* any sequence of multiplications the squared norm of the result is the product
\* of the squared norms of the operands.
C7_NormIsMultiplicative ==
    /\ call.op = "multiply" =>
           quaternionSqrMagnitude(call.r)
               = Mul(quaternionSqrMagnitude(call.p), quaternionSqrMagnitude(call.q))
    /\ call.op = "mul" => quaternionSqrMagnitude(call.acc) = call.norm

\* A sequence of multiplications whose result has drifted away from unit norm.
C7_DriftWitness == call.op = "mul" /\ call.n >= 2 /\ Lt(Two, call.norm)

\* C8: the default quaternion and the default matrix are identities:
\* e * q = q = q * e, e * v = v and I * M = M = M * I.
C8_DefaultsAreIdentities ==
    /\ call.op = "identityQuaternion" => call.l = call.q /\ call.r = call.q
    /\ call.op = "identityVector" => call.r = call.v
    /\ call.op = "identityMatrix" => call.l = call.m /\ call.r = call.m

\* A matrix that is neither symmetric nor a rotation, multiplied by the default one.
C8_DenseMatrixWitness ==
    /\ call.op = "identityMatrix"
    /\ call.m.a.y # call.m.b.x
    /\ call.m.d.x # Zero

\* ------------------------------------------------------------ Euler angles
\* fromEulerAngles(a).toEulerAngles() for angles that are multiples of TAU/8.
EulerRoundTrip ==
    /\ Idle
    /\ \E kx \in RollSteps, ky \in PitchSteps, kz \in RollSteps :
         LET a == float3(eighths(kx), eighths(ky), eighths(kz))
             q == fromEulerAngles(a)
         IN  call' = [op |-> "eulerRoundTrip", a |-> a, q |-> q,
                      sinTerm |-> eulerSinTerm(q),
                      pitch |-> eulerPitch(eulerSinTerm(q)),
                      e |-> toEulerAngles(q)]

\* q.toEulerAngles() for a quaternion that need not be of unit norm.
ToEuler ==
    /\ Idle
    /\ \E q \in Quats \cup MoreUnitQuats :
         call' = [op |-> "toEulerAngles", q |-> q,
                  sinTerm |-> eulerSinTerm(q),
                  pitch |-> eulerPitch(eulerSinTerm(q)),
                  e |-> toEulerAngles(q)]

NextEuler == EulerRoundTrip \/ ToEuler \/ Return

SpecEuler == Init /\ [][NextEuler]_vars

\* The pitch is within 80 degrees and the other two angles within 180 degrees.
InsideBand(a) ==
    /\ Lt(abs(a.y), Mul(TAU, Q(2, 9)))
    /\ Lt(abs(a.x), Mul(TAU, Half))
    /\ Lt(abs(a.z), Mul(TAU, Half))

\* C9: for an Euler triple a inside the band, fromEulerAngles(a).toEulerAngles()
\* reproduces a component for component within the tolerance.
C9_EulerRoundTripReproduces ==
    (call.op = "eulerRoundTrip" /\ InsideBand(call.a)) => NearVec(call.e, call.a)

\* C10: toEulerAngles calls std::asin only with a sine term of magnitude < 1;
\* with a magnitude >= 1 the pitch is TAU/4 with the sign of the term; the pitch
\* returned lies in [-TAU/4, TAU/4].
C10_PitchClamped ==
    call.op \in {"eulerRoundTrip", "toEulerAngles"} =>
        /\ call.pitch.asinCalled <=> Lt(abs(call.sinTerm), One)
        /\ call.pitch.asinCalled => call.pitch.asinArg = call.sinTerm
        /\ Le(One, call.sinTerm) => call.e.y = Div(TAU, I(4))
        /\ Le(call.sinTerm, Neg(One)) => call.e.y = Neg(Div(TAU, I(4)))
        /\ Le(Neg(Div(TAU, I(4))), call.e.y)
        /\ Le(call.e.y, Div(TAU, I(4)))

\* A sine term below -1: the pitch is -TAU/4 without a call of std::asin.
C10_NegativeClampWitness ==
    /\ call.op = "toEulerAngles"
    /\ Lt(call.sinTerm, Neg(One))
    /\ ~ call.pitch.asinCalled

\* ------------------------------------------------------------ angle and axis
\* q.toAngleAxis(outAngle, outAxis).
ToAngleAxis ==
    /\ Idle
    /\ \E q \in UnitQuats \cup MoreUnitQuats \cup SmallAngleQuats :
         LET r == toAngleAxis(q)
         IN  call' = [op |-> "toAngleAxis", this |-> q, q |-> r.q, s |-> r.s,
                      outAngle |-> r.outAngle, outAxis |-> r.outAxis]

NextAngleAxis == ToAngleAxis \/ Return

SpecAngleAxis == Init /\ [][NextAngleAxis]_vars

\* C11: when 1 - w*w is near zero the axis returned is the raw vector part
\* (x, y, z); it is multiplied by fisqrt(1 - w*w) only when 1 - w*w is not
\* near zero.
C11_AxisRawNearZeroAngle ==
    call.op = "toAngleAxis" =>
        LET raw == float3(call.q.x, call.q.y, call.q.z)
        IN  IF nearlyEqual(Sub(One, Mul(call.q.w, call.q.w)), Zero, Q(1, 1000))
            THEN call.outAxis = raw
            ELSE call.outAxis = float3Scale(raw, call.s)

\* ------------------------------------------------------------ inverse lerp
\* inverseLerp(a, b, c) and inverseLerpClamped(a, b, c).
InverseLerpScalar ==
    /\ Idle
    /\ \E a \in Halves, b \in Halves, c \in Halves \cup {I(-1), I(MaxPoint + 1)} :
         call' = [op |-> "inverseLerp", form |-> "f32", a |-> a, b |-> b, c |-> c,
                  same |-> Eq(a, b), atA |-> Eq(c, a), atB |-> Eq(c, b),
                  r |-> inverseLerp(a, b, c), clamped |-> inverseLerpClamped(a, b, c)]

\* float2::inverseLerp(a, b, c).
InverseLerp2 ==
    /\ Idle
    /\ \E a \in Points2, b \in Points2, c \in Points2 \cup {float2(Half, Half)} :
         call' = [op |-> "inverseLerp", form |-> "float2", a |-> a, b |-> b, c |-> c,
                  same |-> float2Equals(a, b), atA |-> float2Equals(c, a),
                  atB |-> float2Equals(c, b), r |-> float2InverseLerp(a, b, c)]

\* float3::inverseLerp(a, b, c).
InverseLerp3 ==
    /\ Idle
    /\ \E a \in Points3, b \in Points3, c \in Points3 \cup {float3(Half, Half, Half)} :
         call' = [op |-> "inverseLerp", form |-> "float3", a |-> a, b |-> b, c |-> c,
                  same |-> float3Equals(a, b), atA |-> float3Equals(c, a),
                  atB |-> float3Equals(c, b), r |-> float3InverseLerp(a, b, c)]

\* float4::inverseLerp(a, b, c), the probe at a, at b or at neither.
InverseLerp4 ==
    /\ Idle
    /\ \E a \in Points4, b \in Points4 :
         \E c \in {a, b, float4(Half, Half, Half, Half)} :
            call' = [op |-> "inverseLerp", form |-> "float4", a |-> a, b |-> b, c |-> c,
                     same |-> float4Equals(a, b), atA |-> float4Equals(c, a),
                     atB |-> float4Equals(c, b), r |-> float4InverseLerp(a, b, c)]

NextLerp == InverseLerpScalar \/ InverseLerp2 \/ InverseLerp3 \/ InverseLerp4 \/ Return

SpecLerp == Init /\ [][NextLerp]_vars

VectorForm == call.op = "inverseLerp" /\ call.form \in {"float2", "float3", "float4"}

\* C12 as stated: the vector forms return 0 when the probe c is at a and when
\* it is at b (a # b).
C12_ZeroAtEitherEndpoint ==
    (VectorForm /\ ~call.same /\ (call.atA \/ call.atB)) => call.r.value = Zero

\* C12: the vector forms return 0 when the probe c is at a, and 1 when it is
\* at b (a # b).
C12_ZeroAtAOneAtB ==
    (VectorForm /\ ~call.same) =>
        /\ call.atA => call.r.value = Zero /\ ~call.r.divided
        /\ call.atB => call.r.value = One /\ call.r.divided

C12_ProbeAtBWitness ==
    VectorForm /\ call.form = "float3" /\ ~call.same /\ call.atB /\ call.r.value = One

\* C13: every inverse lerp returns exactly 0 when a and b coincide, whatever
\* the probe c, without making its division.
C13_ZeroOnCoincidentPoints ==
    (call.op = "inverseLerp" /\ call.same) =>
        /\ call.r.value = Zero /\ ~call.r.divided
        /\ call.form = "f32" => call.clamped.value = Zero /\ ~call.clamped.divided

C13_CoincidentWitness ==
    /\ call.op = "inverseLerp" /\ call.form = "f32"
    /\ call.same /\ ~call.atA

\* ------------------------------------------------------------ view matrix
\* float4x4::lookAt(point, eye, up) for a target away from the eye and an up
\* vector that is not parallel to the viewing direction.
LookAt ==
    /\ Idle
    /\ \E point \in Targets, eye \in Eyes, up \in Ups :
         /\ ~float3Equals(point, eye)
         /\ ~float3Equals(float3Cross(up, float3Sub(point, eye)), float3(Zero, Zero, Zero))
         /\ call' = [op |-> "lookAt", point |-> point, eye |-> eye, up |-> up,
                     m |-> lookAt(point, eye, up)]

NextView == LookAt \/ Return

SpecView == Init /\ [][NextView]_vars

IdentityView ==
    /\ call.op = "lookAt"
    /\ call.point = float3(Zero, Zero, One)
    /\ call.eye = float3(Zero, Zero, Zero)
    /\ call.up = float3(Zero, One, Zero)

\* C14: the first three rows of lookAt's matrix are the axes right, up' and
\* forward: of w component 0, mutually orthogonal and of unit length (within
\* the tolerance), forward along target - eye, right along up x forward, up' =
\* forward x right; the fourth row is (-right.eye, -up'.eye, -forward.eye, 1);
\* for target (0,0,1), eye (0,0,0), up (0,1,0) the matrix is the identity.
C14_LookAtAxes ==
    call.op = "lookAt" =>
        LET right   == float4ToFloat3(call.m.a)
            upward  == float4ToFloat3(call.m.b)
            forward == float4ToFloat3(call.m.c)
            dir     == float3Sub(call.point, call.eye)
            side    == float3Cross(call.up, dir)
            origin  == float3(Zero, Zero, Zero)
        IN  /\ call.m.a.w = Zero /\ call.m.b.w = Zero /\ call.m.c.w = Zero
            /\ Near(float3Dot(right, upward), Zero)
            /\ Near(float3Dot(right, forward), Zero)
            /\ Near(float3Dot(upward, forward), Zero)
            /\ Near(float3SqrMagnitude(right), One)
            /\ Near(float3SqrMagnitude(upward), One)
            /\ Near(float3SqrMagnitude(forward), One)
            /\ NearVec(float3Cross(forward, dir), origin) /\ Lt(Zero, float3Dot(forward, dir))
            /\ NearVec(float3Cross(right, side), origin) /\ Lt(Zero, float3Dot(right, side))
            /\ NearVec(upward, float3Cross(forward, right))
            /\ Near(call.m.d.x, Neg(float3Dot(right, call.eye)))
            /\ Near(call.m.d.y, Neg(float3Dot(upward, call.eye)))
            /\ Near(call.m.d.z, Neg(float3Dot(forward, call.eye)))
            /\ call.m.d.w = One
            /\ IdentityView => NearMatrix(call.m, float4x4Default)

\* A view from an eye away from the origin, along a direction off the axes.
C14_ObliqueViewWitness ==
    /\ call.op = "lookAt"
    /\ call.eye = float3(I(1), I(2), I(2))
    /\ call.point = float3(I(-1), Zero, I(1))
    /\ call.up = float3(One, One, Zero)
    /\ ~ Near(call.m.d.x, Zero)

\* ------------------------------------------------------------ projections
\* The centre of the near plane on either side of the origin, transformed by
\* m with operator*(float4), and its depth after the division by w.
nearCentre(m, near) ==
    LET front == float4x4MulFloat4(m, float4(Zero, Zero, near, One))
        back  == float4x4MulFloat4(m, float4(Zero, Zero, Neg(near), One))
    IN  [front |-> front, back |-> back,
         depthFront |-> Div(front.z, front.w), depthBack |-> Div(back.z, back.w)]

\* float4x4::perspectiveGL(fov, aspectRatio, near, far) * (0, 0, +-near, 1).
PerspectiveNear ==
    /\ Idle
    /\ \E p \in Planes, fov \in {eighths(1), eighths(2)}, aspectRatio \in {One, Q(3, 2)} :
         LET m == perspectiveGL(fov, aspectRatio, I(p[1]), I(p[2]))
         IN  call' = [op |-> "perspectiveGL", near |-> I(p[1]), far |-> I(p[2]), m |-> m,
                      p |-> nearCentre(m, I(p[1]))]

\* float4x4::orthoGL(left, right, bottom, top, near, far) * (0, 0, +-near, 1).
OrthoNear ==
    /\ Idle
    /\ \E p \in Planes, left \in {I(-1), I(-2)}, right \in {I(1), I(2)},
          bottom \in {I(-1), I(-2)}, top \in {I(1), I(2)} :
         LET m == orthoGL(left, right, bottom, top, I(p[1]), I(p[2]))
         IN  call' = [op |-> "orthoGL", near |-> I(p[1]), far |-> I(p[2]), m |-> m,
                      p |-> nearCentre(m, I(p[1]))]

NextProjection == PerspectiveNear \/ OrthoNear \/ Return

SpecProjection == Init /\ [][NextProjection]_vars

\* C15: for 0 < near < far the matrices of perspectiveGL and of orthoGL map the
\* centre of the near plane (z = near or z = -near, w = 1), transformed with
\* operator*(float4), to the depth -1 after the division by w.
C15_NearPlaneAtMinusOne ==
    call.op \in {"perspectiveGL", "orthoGL"} =>
        \/ Eq(call.p.depthFront, I(-1))
        \/ Eq(call.p.depthBack, I(-1))

\* ------------------------------------------------------------ fisqrt
\* a <= b on u32.
u32Le(a, b) == a[1] < b[1] \/ (a[1] = b[1] /\ a[2] <= b[2])

\* The seeds of two bit patterns of positive finite floats.
Seed ==
    /\ Idle
    /\ \E b \in PositiveFinite, c \in PositiveFinite :
         call' = [op |-> "seed", bits |-> b, other |-> c,
                  seed |-> fisqrtSeed(b), otherSeed |-> fisqrtSeed(c)]

\* fisqrt of a float of the representative range: the seed, n * y0 * y0, the
\* factor of the refinement step, and n * y1 * y1, all but the seed scaled.
Refine ==
    /\ Idle
    /\ \E b \in Representative :
         LET s == fisqrtSeed(b).bits
             t == seedProduct(b, s)
             f == refineFactor(t)
         IN  call' = [op |-> "fisqrt", bits |-> b, seed |-> s, t |-> t, factor |-> f,
                      square |-> RoundDiv(RoundDiv(t * f, Scale) * f, Scale),
                      r |-> fisqrtOfBits(b)]

NextFisqrt == Seed \/ Refine \/ Return

SpecFisqrt == Init /\ [][NextFisqrt]_vars

\* C16: for a positive float n of the representative range, fisqrt(n) is
\* within 0.2% of 1/sqrt(n): n * y1 * y1 is within 0.4% of 1.
C16_RelativeErrorBound ==
    call.op = "fisqrt" => Abs(call.square - Scale) * 1000 <= 4 * Scale

\* An input on which the error is more than a quarter of the bound.
C16_VisibleErrorWitness ==
    call.op = "fisqrt" /\ Abs(call.square - Scale) * 1000 >= Scale

\* C18: for the bit pattern of a positive finite float, 0x5F1FFFF9 - (bits >> 1)
\* does not wrap around and is the pattern of a positive, finite, normal float;
\* the seed does not increase with the input pattern.
C18_SeedIsNormalAndMonotone ==
    call.op = "seed" =>
        /\ ~ call.seed.wrapped
        /\ signBit(call.seed.bits) = 0
        /\ exponentField(call.seed.bits) \notin {0, 255}
        /\ u32Le(call.bits, call.other) => u32Le(call.otherSeed.bits, call.seed.bits)

\* The smallest and the largest pattern: the seeds differ and are in order.
C18_ExtremesWitness ==
    /\ call.op = "seed"
    /\ call.bits = <<0, 1>> /\ call.other = <<32639, 65535>>
    /\ call.seed.bits # call.otherSeed.bits

\* ------------------------------------------------------------ normalize
\* One normalization: the seed and the root fisqrt gives for the squared
\* magnitude, the vector after normalize(), the one normalized() returns, and
\* the vector after a second normalize().
normalization(form, v, mag, inPlace, copy, again) ==
    [op |-> "normalize", form |-> form, v |-> v, mag |-> mag,
     seed |-> fisqrtSeed(floatBits(mag)).bits, root |-> fisqrt(mag),
     inPlace |-> inPlace, copy |-> copy, again |-> again]

Normalize2 ==
    /\ Idle
    /\ \E v \in Lengths2 :
         call' = normalization("float2", v, float2SqrMagnitude(v), float2Normalize(v),
                               float2Normalized(v), float2Normalize(float2Normalize(v)))

Normalize3 ==
    /\ Idle
    /\ \E v \in Targets :
         call' = normalization("float3", v, float3SqrMagnitude(v), float3Normalize(v),
                               float3Normalized(v), float3Normalize(float3Normalize(v)))

Normalize4 ==
    /\ Idle
    /\ \E v \in Lengths4 :
         call' = normalization("float4", v, float4SqrMagnitude(v), float4Normalize(v),
                               float4Normalized(v), float4Normalize(float4Normalize(v)))

NormalizeQuaternion ==
    /\ Idle
    /\ \E q \in Quats :
         call' = normalization("quaternion", q, quaternionSqrMagnitude(q),
                               quaternionNormalize(q), quaternionNormalized(q),
                               quaternionNormalize(quaternionNormalize(q)))

NextNormalize == Normalize2 \/ Normalize3 \/ Normalize4 \/ NormalizeQuaternion \/ Return

SpecNormalize == Init /\ [][NextNormalize]_vars

AllZero(v) == \A f \in DOMAIN v : v[f] = Zero

\* C17: normalizing a zero vector or a zero quaternion is defined: the seed of
\* fisqrt(0) is 0x5F1FFFF9, the root is finite, every component of the result
\* is 0, and normalizing again gives the same.
C17_ZeroVectorStaysZero ==
    (call.op = "normalize" /\ AllZero(call.v)) =>
        /\ call.seed = <<MagicHi, MagicLo>>
        /\ exponentField(call.seed) # 255
        /\ ~ IsNaN(call.root) /\ (IsHuge(call.root) \/ Den(call.root) # 0)
        /\ AllZero(call.inPlace)
        /\ AllZero(call.copy)
        /\ call.again = call.inPlace

\* The zero quaternion has been normalized.
C17_ZeroQuaternionWitness ==
    call.op = "normalize" /\ call.form = "quaternion" /\ AllZero(call.v)

\* ------------------------------------------------------------ p *= q
\* p *= q beside p * q from the same p.
MulAssign ==
    /\ Idle
    /\ \E p \in Quats, q \in Operands :
         call' = [op |-> "mulAssign", p |-> p, q |-> q,
                  assigned |-> quaternionMulAssign(p, q), product |-> quaternionMul(p, q)]

NextMulAssign == MulAssign \/ Return

SpecMulAssign == Init /\ [][NextMulAssign]_vars

\* C19: after p *= q, p holds the product p * q of the original p and q.
C19_CompoundEqualsProduct == call.op = "mulAssign" => call.assigned = call.product

\* p = (1, 1, 1, 1) and q = (1, 1, 0, -1): neither is zero nor the identity.
C19_GenericOperandsWitness ==
    /\ call.op = "mulAssign"
    /\ call.p = quaternion(One, One, One, One)
    /\ call.q = quaternion(I(1), I(1), Zero, I(-1))

\* ------------------------------------------------------------ rotation matrix
\* fromRotation(q) * v beside q * v.
RotateByMatrix ==
    /\ Idle
    /\ \E q \in UnitQuats \cup MoreUnitQuats \cup Operands, v \in Vecs :
         call' = [op |-> "rotateByMatrix", q |-> q, v |-> v, m |-> fromRotation(q),
                  byMatrix |-> float4x4MulFloat3(fromRotation(q), v),
                  byQuaternion |-> quaternionRotate(q, v)]

NextRotationMatrix == RotateByMatrix \/ Return

SpecRotationMatrix == Init /\ [][NextRotationMatrix]_vars

\* C20: fromRotation(q) * v equals q * v, and the fourth row and the fourth
\* column of fromRotation(q) are (0, 0, 0, 1).
C20_MatrixRotatesLikeQuaternion ==
    call.op = "rotateByMatrix" =>
        /\ call.byMatrix = call.byQuaternion
        /\ call.m.d = float4(Zero, Zero, Zero, One)
        /\ getColumn(call.m, 3) = float4(Zero, Zero, Zero, One)

\* A rotation that moves v, by a quaternion with w and a vector part.
C20_TurnedVectorWitness ==
    /\ call.op = "rotateByMatrix"
    /\ call.q.w # Zero /\ call.q.x # Zero
    /\ call.byMatrix # call.v
    /\ call.byMatrix # quaternionRotate(inversed(call.q), call.v)

\* ------------------------------------------------------------ affine parts
\* M.translation(), M.rotationAndScale() and their product, for an affine M.
Split ==
    /\ Idle
    /\ \E b \in Matrices \cup {float4x4Default}, t \in Targets :
         LET m == affine(b, t)
         IN  call' = [op |-> "split", m |-> m, column |-> t,
                      translation |-> translation(m),
                      rotationAndScale |-> rotationAndScale(m),
                      product |-> float4x4Mul(translation(m), rotationAndScale(m))]

\* float4x4::translate(t).translation().
TranslateThenSplit ==
    /\ Idle
    /\ \E t \in Targets \cup Vecs :
         call' = [op |-> "translate", t |-> t, m |-> translate(t),
                  translation |-> translation(translate(t))]

NextAffine == Split \/ TranslateThenSplit \/ Return

SpecAffine == Init /\ [][NextAffine]_vars

\* C21: for an affine M, of last row (0, 0, 0, 1), M.translation() is the
\* identity with M's translation column, M.rotationAndScale() is M's upper-left
\* 3x3 block with the identity elsewhere, and M.translation() *
\* M.rotationAndScale() is M; translate(t).translation() is translate(t).
C21_SplitRecomposes ==
    /\ call.op = "split" =>
          /\ call.translation = affine(float4x4Default, call.column)
          /\ call.rotationAndScale = affine(call.m, float3(Zero, Zero, Zero))
          /\ call.product = call.m
    /\ call.op = "translate" => call.translation = call.m

\* A matrix with a translation and a block that is not the identity, whose
\* parts do not commute.
C21_BothPartsWitness ==
    /\ call.op = "split"
    /\ call.translation # float4x4Default
    /\ call.rotationAndScale # float4x4Default
    /\ float4x4Mul(call.rotationAndScale, call.translation) # call.m

\* ------------------------------------------------------------ the eye in view space
\* lookAt(point, eye, up) * eye, by float4x4::operator*(float3).
ViewEye ==
    /\ Idle
    /\ \E point \in Targets, eye \in Eyes, up \in Ups :
         /\ ~float3Equals(point, eye)
         /\ ~float3Equals(float3Cross(up, float3Sub(point, eye)), float3(Zero, Zero, Zero))
         /\ call' = [op |-> "viewEye", point |-> point, eye |-> eye, up |-> up,
                     m |-> lookAt(point, eye, up),
                     image |-> float4x4MulFloat3(lookAt(point, eye, up), eye)]

NextViewEye == ViewEye \/ Return

SpecViewEye == Init /\ [][NextViewEye]_vars

\* C22: for a non-degenerate target, eye and up, lookAt(target, eye, up) * eye
\* is the zero vector (within the tolerance): the eye is the origin of view space.
C22_EyeMapsToOrigin ==
    call.op = "viewEye" => NearVec(call.image, float3(Zero, Zero, Zero))

\* An eye away from the origin, looked from at an oblique target.
C22_DisplacedEyeWitness ==
    /\ call.op = "viewEye"
    /\ call.eye = float3(I(1), I(2), I(2))
    /\ call.point = float3(Zero, Zero, One)
    /\ call.up = float3(Zero, One, Zero)

\* ------------------------------------------------------------ clip conventions
\* A built matrix m, the row vector (x, y, z, 1) times it, and the depths z/w
\* of (0, 0, near, 1) * m and (0, 0, far, 1) * m.
clip(op, m, v, near, far) ==
    LET atNear == rowTimes(float4(Zero, Zero, near, One), m)
        atFar  == rowTimes(float4(Zero, Zero, far, One), m)
    IN  [op |-> op, m |-> m, v |-> v, near |-> near, far |-> far,
         image |-> rowTimes(float4(v.x, v.y, v.z, One), m),
         depthNear |-> Div(atNear.z, atNear.w), depthFar |-> Div(atFar.z, atFar.w)]

OrthoGLPoint ==
    /\ Idle
    /\ \E p \in Planes, left \in {I(-1), I(-2)}, right \in {I(1), I(2)},
          bottom \in {I(-1)}, top \in {I(1), I(2)}, v \in Vecs :
         call' = clip("orthoGL", orthoGL(left, right, bottom, top, I(p[1]), I(p[2])), v,
                      I(p[1]), I(p[2]))

OrthoDXPoint ==
    /\ Idle
    /\ \E p \in Planes, width \in {I(1), I(2), I(3)}, height \in {I(2), Half}, v \in Vecs :
         call' = clip("orthoDX", orthoDX(width, height, I(p[1]), I(p[2])), v, I(p[1]), I(p[2]))

PerspectiveDXPoint ==
    /\ Idle
    /\ \E p \in Planes, fov \in {I(60), I(90)}, aspectRatio \in {One, Q(3, 2)}, v \in Vecs :
         call' = clip("perspectiveDX", perspectiveDX(fov, aspectRatio, I(p[1]), I(p[2])), v,
                      I(p[1]), I(p[2]))

NextClip == OrthoGLPoint \/ OrthoDXPoint \/ PerspectiveDXPoint \/ Return

SpecClip == Init /\ [][NextClip]_vars

\* C23: the matrices of orthoGL and of orthoDX are affine in the same layout:
\* values[3][3] is 1, values[0][3], values[1][3] and values[2][3] are 0, and
\* the row vector (x, y, z, 1) times either keeps w = 1.
C23_OrthoKeepsW ==
    call.op \in {"orthoGL", "orthoDX"} =>
        /\ getColumn(call.m, 3) = float4(Zero, Zero, Zero, One)
        /\ Eq(call.image.w, One)

\* An orthoGL matrix has been built and applied.
C23_OrthoGLWitness == call.op = "orthoGL" /\ call.v = float3(I(1), I(-2), I(3))

\* C24: for 0 < near < far, the row vector (0, 0, z, 1) times perspectiveDX's
\* or orthoDX's matrix has depth z/w = 0 at z = near and depth 1 (within the
\* tolerance) at z = far.
C24_DepthZeroToOne ==
    call.op \in {"perspectiveDX", "orthoDX"} =>
        /\ Eq(call.depthNear, Zero)
        /\ Near(call.depthFar, One)

\* A perspective matrix whose planes are neither at 1 nor one apart.
C24_PerspectivePlanesWitness ==
    /\ call.op = "perspectiveDX"
    /\ call.near = Two /\ Lt(I(3), call.far)
    /\ Eq(call.image.w, call.v.z)

Next ==
    \/ NextRotation \/ NextAlgebra \/ NextEuler \/ NextAngleAxis \/ NextLerp \/ NextView
    \/ NextProjection \/ NextFisqrt \/ NextNormalize \/ NextMulAssign \/ NextRotationMatrix
    \/ NextAffine \/ NextViewEye \/ NextClip

Spec == Init /\ [][Next]_vars
====
